---- MODULE Spec2Model ----
(***************************************************************************)
(* Go-to-definition and hover of crates/ra_ide_api.                        *)
(*                                                                         *)
(* Both entry points are pure queries over one database snapshot.  The     *)
(* snapshot is modelled by three variables: the syntax nodes covering the  *)
(* queried offset (innermost first), the answer of classify_name_ref for   *)
(* the name reference at the offset, and the answer of the symbol index    *)
(* for it.  An action runs one entry point on the snapshot and stores what *)
(* it returned, together with whether the symbol index was queried.        *)
(*                                                                         *)
(* The covering nodes form one line of ancestors: a name or a name         *)
(* reference is a leaf, so at most one of the two covers the offset, and   *)
(* the parent of a node is the next node of the chain.                     *)
(***************************************************************************)
EXTENDS Integers, Sequences, FiniteSets, TLC

(* Bounds of the model. *)
MaxDepth == 2      \* syntax nodes covering the offset
MaxIndex == 2      \* symbols the index returns for one name

(* File ids, as the test fixtures number them. *)
ThisFile == 1
OtherFile == 2

VARIABLES ancestors, classification, symbols, frange, op, result, index_queried

vars == <<ancestors, classification, symbols, frange, op, result, index_queried>>

(* Option<T>: a sequence of at most one element, so that Vec::extend of an *)
(* option is concatenation.                                                *)
None == <<>>
Some(x) == <<x>>

-----------------------------------------------------------------------------
(* Syntax. *)

(* TextRange of width class w around the queried offset. *)
TextRange(w) == <<MaxDepth - w, MaxDepth + w>>

LeafRange == TextRange(1)

Widen(r) == <<r[1] - 1, r[2] + 1>>

RangeContains(outer, inner) == outer[1] <= inner[1] /\ inner[2] <= outer[2]

(* The node categories named_target dispatches on. *)
DeclKinds ==
    {"STRUCT_DEF", "ENUM_DEF", "ENUM_VARIANT", "FN_DEF", "TYPE_ALIAS_DEF", "CONST_DEF",
     "STATIC_DEF", "TRAIT_DEF", "NAMED_FIELD_DEF", "MODULE", "MACRO_CALL"}

(* A syntax node with the facts the queries read from it:                  *)
(*   docs      doc_comment_text() is Some                                  *)
(*   label     short_label() is Some                                       *)
(*   has_semi  Module::has_semi()                                          *)
(*   child     module_from_declaration() resolves the declaration          *)
(*   ty        the analyzer has a type for the expression or pattern       *)
SyntaxNode(kind, range, docs, label, has_semi, child, ty) ==
    [kind |-> kind, range |-> range, docs |-> docs, label |-> label,
     has_semi |-> has_semi, child |-> child, ty |-> ty]

PlainNode(kind, range) == SyntaxNode(kind, range, FALSE, FALSE, FALSE, FALSE, FALSE)

(* Nodes that can enclose a node of range r: expressions, patterns, others. *)
UpperNodes(r) ==
    {SyntaxNode(k, rr, FALSE, FALSE, FALSE, FALSE, t) :
        k \in {"EXPR", "PAT"}, rr \in {r, Widen(r)}, t \in BOOLEAN}
    \cup {PlainNode("OTHER", rr) : rr \in {r, Widen(r)}}

(* Declarations that can be the parent of a name of range r. *)
DeclNodes(r) ==
    {SyntaxNode(k, rr, d, l, FALSE, FALSE, FALSE) :
        k \in DeclKinds \ {"MACRO_CALL"}, rr \in {r, Widen(r)}, d \in BOOLEAN, l \in BOOLEAN}
    \cup {SyntaxNode("MACRO_CALL", rr, d, FALSE, FALSE, FALSE, FALSE) :
        rr \in {r, Widen(r)}, d \in BOOLEAN}
    \cup {SyntaxNode("MODULE", rr, d, l, TRUE, c, FALSE) :
        rr \in {r, Widen(r)}, d \in BOOLEAN, l \in BOOLEAN, c \in BOOLEAN}

Last(s) == s[Len(s)]

(* Every way to enclose the chains of S in up to n more nodes. *)
RECURSIVE Enclose(_, _)
Enclose(S, n) ==
    IF n <= 0 THEN S
    ELSE S \cup Enclose(UNION {{Append(c, u) : u \in UpperNodes(Last(c).range)} : c \in S},
                        n - 1)

RefChains == Enclose({<<PlainNode("NAME_REF", LeafRange)>>}, MaxDepth - 1)

NameChains ==
    {<<PlainNode("NAME", LeafRange)>>}
    \cup Enclose({<<PlainNode("NAME", LeafRange), p>> :
                    p \in DeclNodes(LeafRange) \cup UpperNodes(LeafRange)}, MaxDepth - 2)

BareChains ==
    {<<>>} \cup Enclose({<<u>> : u \in {n \in UpperNodes(LeafRange) : n.range = LeafRange}},
                        MaxDepth - 1)

(* find_node_at_offset::<N>: the innermost covering node of the category,  *)
(* as an index into the chain; 0 when there is none.                       *)
find_node_at_offset(chain, kinds) ==
    LET hits == {i \in 1..Len(chain) : chain[i].kind \in kinds}
    IN IF hits = {} THEN 0 ELSE CHOOSE i \in hits : \A j \in hits : i <= j

-----------------------------------------------------------------------------
(* Semantic model and symbol index. *)

(* classify_name_ref: kind is one of the nine NameRefKind variants or      *)
(* "None"; sub tells apart the cases the callers match on within a kind;   *)
(* docs and label are doc_comment_text() and short_label() of the source   *)
(* of the entity referred to.                                              *)
NameRefKind(kind, sub, docs, label) ==
    [kind |-> kind, sub |-> sub, docs |-> docs, label |-> label]

Unclassified == NameRefKind("None", "-", FALSE, FALSE)

Classifications ==
    {NameRefKind(k[1], k[2], d, l) :
        k \in {<<"Macro", "-">>, <<"FieldAccess", "Named">>, <<"AssocItem", "-">>,
               <<"Method", "-">>, <<"Def", "Module">>, <<"Def", "Item">>,
               <<"SelfType", "Adt">>},
        d \in BOOLEAN, l \in BOOLEAN}
    \cup {NameRefKind(k[1], k[2], FALSE, FALSE) :
        k \in {<<"FieldAccess", "Pos">>, <<"Def", "ModuleFile">>, <<"Def", "BuiltinType">>,
               <<"SelfType", "NonAdt">>, <<"Pat", "-">>, <<"SelfParam", "-">>,
               <<"GenericParam", "-">>}}
    \cup {Unclassified}

(* A FileSymbol: docs_from_symbol / description_from_symbol are Some. *)
FileSymbol(id, docs, desc) == [id |-> id, docs |-> docs, desc |-> desc]

FileSymbols ==
    {FileSymbol("s1", TRUE, TRUE), FileSymbol("s2", TRUE, FALSE), FileSymbol("s3", FALSE, FALSE)}

RECURSIVE SeqsUpTo(_, _)
SeqsUpTo(S, n) ==
    IF n <= 0 THEN {<<>>}
    ELSE LET shorter == SeqsUpTo(S, n - 1)
         IN shorter \cup {Append(s, x) : s \in {t \in shorter : Len(t) = n - 1}, x \in S}

IndexAnswers == SeqsUpTo(FileSymbols, MaxIndex)

(* symbol_index::index_resolve(db, name_ref) *)
index_resolve(syms) == syms

-----------------------------------------------------------------------------
(* Navigation targets. *)

NavigationTarget(ctor, name, file_id, full_range, focus_range) ==
    [ctor |-> ctor, name |-> name, file_id |-> file_id,
     full_range |-> full_range, focus_range |-> focus_range]

(* Where the entity a reference resolves to is declared. *)
DefFullRange == <<0, 4>>
DefFocusRange == <<1, 2>>

from_macro_def ==
    NavigationTarget("from_macro_def", "def", OtherFile, DefFullRange, Some(DefFocusRange))
from_field ==
    NavigationTarget("from_field", "def", OtherFile, DefFullRange, Some(DefFocusRange))
from_impl_item ==
    NavigationTarget("from_impl_item", "def", OtherFile, DefFullRange, Some(DefFocusRange))
from_def_source_nav ==
    NavigationTarget("from_def_source", "def", OtherFile, DefFullRange, Some(DefFocusRange))
from_adt_def ==
    NavigationTarget("from_adt_def", "def", OtherFile, DefFullRange, Some(DefFocusRange))
from_pat ==
    NavigationTarget("from_pat", "def", ThisFile, DefFullRange, Some(DefFocusRange))
from_self_param ==
    NavigationTarget("from_self_param", "def", ThisFile, DefFullRange, Some(DefFocusRange))

(* NavigationTarget::from_def: None for a built-in type. *)
from_def(c) ==
    IF c.sub = "BuiltinType" THEN None
    ELSE Some(NavigationTarget("from_def", "def", OtherFile, DefFullRange, Some(DefFocusRange)))

from_symbol(s) ==
    NavigationTarget("from_symbol", s.id, OtherFile, DefFullRange, Some(DefFocusRange))

(* NavigationTarget::from_module: the child module's file, no focus range. *)
from_module ==
    NavigationTarget("from_module", "SOURCE_FILE", OtherFile, DefFullRange, None)

(* NavigationTarget::from_named(file_id, node, docs, description): the     *)
(* node's range, and the range of its name as focus.                       *)
from_named(chain, i) ==
    NavigationTarget("from_named", chain[i].kind, ThisFile, chain[i].range,
                     Some(chain[i - 1].range))

-----------------------------------------------------------------------------
(* goto_definition.rs *)

Exact(target) == [tag |-> "Exact", target |-> Some(target), vec |-> <<>>]
Approximate(vec) == [tag |-> "Approximate", target |-> None, vec |-> vec]

to_vec(r) == IF r.tag = "Exact" THEN <<r.target[1]>> ELSE r.vec

(* What an arm of the match in reference_definition does: return a result, *)
(* or fall out of the match.                                               *)
Return(r) == [returned |-> TRUE, value |-> r]
FallOut == [returned |-> FALSE, value |-> Approximate(<<>>)]

(* def_arm with the failed construction falling out of the match. *)
def_arm_falling_out(c) ==
    IF from_def(c) # None THEN Return(Exact(from_def(c)[1]))
    ELSE FallOut

def_arm(c) ==
    IF from_def(c) # None THEN Return(Exact(from_def(c)[1]))
    ELSE Return(Approximate(<<>>))

(* self_type_arm returning an empty result for a type that is no ADT. *)
self_type_arm_returning_empty(c) ==
    IF c.sub = "Adt" THEN Return(Exact(from_adt_def)) ELSE Return(Approximate(<<>>))

self_type_arm(c) ==
    IF c.sub = "Adt" THEN Return(Exact(from_adt_def)) ELSE FallOut

(* generic_param_arm returning an empty result. *)
generic_param_arm_returning_empty(c) == Return(Approximate(<<>>))

generic_param_arm(c) == FallOut

reference_match(c) ==
    CASE c.kind = "Macro" -> Return(Exact(from_macro_def))
      [] c.kind = "FieldAccess" -> Return(Exact(from_field))
      [] c.kind = "AssocItem" -> Return(Exact(from_impl_item))
      [] c.kind = "Method" -> Return(Exact(from_def_source_nav))
      [] c.kind = "Def" -> def_arm(c)
      [] c.kind = "SelfType" -> self_type_arm(c)
      [] c.kind = "Pat" -> Return(Exact(from_pat))
      [] c.kind = "SelfParam" -> Return(Exact(from_self_param))
      [] c.kind = "GenericParam" -> generic_param_arm(c)
      [] c.kind = "None" -> FallOut

(* The first occurrence of every element of s, in order. *)
RECURSIVE Dedup(_)
Dedup(s) ==
    IF s = <<>> THEN <<>>
    ELSE LET front == Dedup(SubSeq(s, 1, Len(s) - 1))
         IN IF \E i \in 1..Len(front) : front[i] = s[Len(s)] THEN front
            ELSE Append(front, s[Len(s)])

(* index_fallback dropping repeated symbols. *)
index_fallback_dedup(syms) ==
    Approximate([i \in 1..Len(Dedup(index_resolve(syms))) |->
                    from_symbol(Dedup(index_resolve(syms))[i])])

(* The index fallback of reference_definition. *)
index_fallback(syms) ==
    Approximate([i \in 1..Len(index_resolve(syms)) |-> from_symbol(index_resolve(syms)[i])])

(* reference_definition with the arms of the match not returning. *)
reference_definition_without_return(c, syms) ==
    [value |-> index_fallback(syms), index_queried |-> TRUE]

(* reference_definition, with a record of whether it queried the index. *)
reference_definition(c, syms) ==
    IF reference_match(c).returned
    THEN [value |-> reference_match(c).value, index_queried |-> FALSE]
    ELSE [value |-> index_fallback(syms), index_queried |-> TRUE]

(* named_target without the visitor for macro calls. *)
named_target_without_macro_call(chain, i) ==
    IF chain[i].kind \in DeclKinds \ {"MACRO_CALL"} THEN Some(from_named(chain, i)) ELSE None

named_target(chain, i) ==
    IF chain[i].kind \in DeclKinds THEN Some(from_named(chain, i)) ELSE None

(* name_definition without the case of a module declared by reference. *)
name_definition_table_only(chain, i) ==
    IF i >= Len(chain) THEN None
    ELSE IF named_target(chain, i + 1) # None
         THEN Some(<<named_target(chain, i + 1)[1]>>)
         ELSE None

(* name_definition taking the special case for modules with a body. *)
name_definition_for_inline_modules(chain, i) ==
    IF i >= Len(chain) THEN None
    ELSE LET parent == chain[i + 1]
         IN IF parent.kind = "MODULE" /\ ~parent.has_semi
            THEN Some(<<from_module>>)
            ELSE IF named_target(chain, i + 1) # None
                 THEN Some(<<named_target(chain, i + 1)[1]>>)
                 ELSE None

(* name_definition for the name at chain[i]. *)
name_definition(chain, i) ==
    IF i >= Len(chain) THEN None
    ELSE LET parent == chain[i + 1]
         IN IF parent.kind = "MODULE" /\ parent.has_semi /\ parent.child
            THEN Some(<<from_module>>)
            ELSE IF named_target(chain, i + 1) # None
                 THEN Some(<<named_target(chain, i + 1)[1]>>)
                 ELSE None

RangeInfo(range, info) == [range |-> range, info |-> info]

(* goto_definition failing when reference_definition finds no target. *)
goto_definition_failing_on_empty(chain, c, syms) ==
    LET name_ref == find_node_at_offset(chain, {"NAME_REF"})
        name == find_node_at_offset(chain, {"NAME"})
    IN IF name_ref # 0
       THEN [value |-> IF to_vec(reference_definition(c, syms).value) = <<>> THEN None
                       ELSE Some(RangeInfo(chain[name_ref].range,
                                           to_vec(reference_definition(c, syms).value))),
             index_queried |-> reference_definition(c, syms).index_queried]
       ELSE IF name # 0 /\ name_definition(chain, name) # None
            THEN [value |-> Some(RangeInfo(chain[name].range, name_definition(chain, name)[1])),
                  index_queried |-> FALSE]
            ELSE [value |-> None, index_queried |-> FALSE]

goto_definition(chain, c, syms) ==
    LET name_ref == find_node_at_offset(chain, {"NAME_REF"})
        name == find_node_at_offset(chain, {"NAME"})
    IN IF name_ref # 0
       THEN [value |-> Some(RangeInfo(chain[name_ref].range,
                                      to_vec(reference_definition(c, syms).value))),
             index_queried |-> reference_definition(c, syms).index_queried]
       ELSE IF name # 0 /\ name_definition(chain, name) # None
            THEN [value |-> Some(RangeInfo(chain[name].range, name_definition(chain, name)[1])),
                  index_queried |-> FALSE]
            ELSE [value |-> None, index_queried |-> FALSE]

-----------------------------------------------------------------------------
(* hover.rs *)

(* A piece of text the database holds: the doc comment or the short label  *)
(* of an owner (the entity referred to, a declaration node, an indexed     *)
(* symbol), or the display of the type of the node at a chain index.       *)
Text(kind, owner, at) == [kind |-> kind, owner |-> owner, at |-> at]

(* display::rust_code_markup_with_doc and rust_code_markup: a code block,  *)
(* followed by the documentation when there is some.                       *)
rust_code_markup_with_doc(desc, docs) == [code |-> Some(desc), doc |-> docs]
rust_code_markup(ty) == [code |-> Some(ty), doc |-> None]

hover_text(docs, desc) ==
    IF desc # None THEN Some(rust_code_markup_with_doc(desc[1], docs))
    ELSE IF docs # None THEN Some([code |-> None, doc |-> Some(docs[1])])
    ELSE None

HoverResult_new == [results |-> <<>>, exact |-> TRUE]

extend(res, item) == [res EXCEPT !.results = @ \o item]

is_empty(res) == res.results = <<>>

(* doc_comment_text() and short_label() of the source of the entity a      *)
(* reference was classified as.                                            *)
doc_comment_text(c) == IF c.docs THEN Some(Text("doc", "def", 0)) ELSE None
short_label(c) == IF c.label THEN Some(Text("label", "def", 0)) ELSE None

from_def_source(c) == hover_text(doc_comment_text(c), short_label(c))

docs_from_symbol(s) == IF s.docs THEN Some(Text("doc", s.id, 0)) ELSE None
description_from_symbol(s) == IF s.desc THEN Some(Text("label", s.id, 0)) ELSE None

(* What an arm of the match in hover adds to the result, and whether it    *)
(* suppresses the index fallback.                                          *)
Extends(item) == [item |-> item, no_fallback |-> FALSE]
NoFallback == [item |-> None, no_fallback |-> TRUE]

(* pat_arm without the suppression of the fallback. *)
pat_arm_with_fallback(c) == Extends(None)

pat_arm(c) == NoFallback

hover_match(c) ==
    CASE c.kind = "Method" -> Extends(from_def_source(c))
      [] c.kind = "Macro" -> Extends(hover_text(doc_comment_text(c), None))
      [] c.kind = "FieldAccess" ->
            IF c.sub = "Named" THEN Extends(hover_text(doc_comment_text(c), short_label(c)))
            ELSE Extends(None)
      [] c.kind = "AssocItem" -> Extends(from_def_source(c))
      [] c.kind = "Def" ->
            IF c.sub = "Module" THEN Extends(hover_text(doc_comment_text(c), short_label(c)))
            ELSE IF c.sub = "Item" THEN Extends(from_def_source(c))
            ELSE Extends(None)
      [] c.kind = "SelfType" ->
            IF c.sub = "Adt" THEN Extends(from_def_source(c)) ELSE Extends(None)
      [] c.kind \in {"Pat", "SelfParam"} -> pat_arm(c)
      [] c.kind = "GenericParam" -> Extends(None)
      [] c.kind = "None" -> Extends(None)

(* The loop over the symbols, left at the first symbol that has text. *)
RECURSIVE hover_symbols_until_first(_, _)
hover_symbols_until_first(res, syms) ==
    IF syms = <<>> \/ ~is_empty(res) THEN res
    ELSE hover_symbols_until_first(
            extend(res, hover_text(docs_from_symbol(Head(syms)),
                                   description_from_symbol(Head(syms)))),
            Tail(syms))

(* The loop over the symbols of the index fallback. *)
RECURSIVE hover_symbols(_, _)
hover_symbols(res, syms) ==
    IF syms = <<>> THEN res
    ELSE hover_symbols(
            extend(res, hover_text(docs_from_symbol(Head(syms)),
                                   description_from_symbol(Head(syms)))),
            Tail(syms))

(* hover_name_ref falling back whether or not the match added a block. *)
hover_name_ref_always_falling_back(c, syms) ==
    LET res == extend(HoverResult_new, hover_match(c).item)
    IN IF ~hover_match(c).no_fallback
       THEN [res |-> hover_symbols(res, index_resolve(syms)), index_queried |-> TRUE]
       ELSE [res |-> res, index_queried |-> FALSE]

(* The name-reference branch of hover: the result so far and whether the   *)
(* index was queried.                                                      *)
hover_name_ref(c, syms) ==
    LET res == extend(HoverResult_new, hover_match(c).item)
    IN IF is_empty(res) /\ ~hover_match(c).no_fallback
       THEN [res |-> hover_symbols(res, index_resolve(syms)), index_queried |-> TRUE]
       ELSE [res |-> res, index_queried |-> FALSE]

node_doc_comment_text(n) == IF n.docs THEN Some(Text("doc", n.kind, 0)) ELSE None
node_short_label(n) == IF n.label THEN Some(Text("label", n.kind, 0)) ELSE None

(* The visitor over the parent of a declaration name: Some(text) when the  *)
(* parent is of one of the categories, text being hover_text's option.     *)
hover_visitor(n) ==
    IF n.kind \in DeclKinds \ {"MACRO_CALL"}
    THEN Some(hover_text(node_doc_comment_text(n), node_short_label(n)))
    ELSE IF n.kind = "MACRO_CALL" THEN Some(hover_text(node_doc_comment_text(n), None))
    ELSE None

(* The declaration-name branch of hover, for the name at chain[i]. *)
hover_name(chain, i) ==
    IF i < Len(chain) /\ hover_visitor(chain[i + 1]) # None
    THEN extend(HoverResult_new, hover_visitor(chain[i + 1])[1])
    ELSE HoverResult_new

(* find_covering_element: the innermost element covering the range, as an  *)
(* index into the chain; 0 for the root of the file, which covers all.     *)
find_covering_element(chain, range) ==
    LET covering == {i \in 1..Len(chain) : RangeContains(chain[i].range, range)}
    IN IF covering = {} THEN 0 ELSE CHOOSE i \in covering : \A j \in covering : i <= j

IsExprOrPat(n) == n.kind \in {"EXPR", "PAT"}

(* type_of walking all the ancestors of the covering element. *)
type_of_walking_all_ancestors(chain, range) ==
    LET leaf_node == find_covering_element(chain, range)
        found == {i \in 1..Len(chain) : i >= leaf_node /\ IsExprOrPat(chain[i])}
    IN IF leaf_node = 0 \/ found = {} THEN None
       ELSE LET node == CHOOSE i \in found : \A j \in found : i <= j
            IN IF chain[node].ty THEN Some(Text("type", chain[node].kind, node)) ELSE None

(* type_of walking the ancestors whose range is the range asked about. *)
type_of_comparing_with_frange(chain, range) ==
    LET leaf_node == find_covering_element(chain, range)
        same == {i \in 1..Len(chain) :
                    /\ i >= leaf_node
                    /\ \A j \in leaf_node..i : chain[j].range = range}
        found == {i \in same : IsExprOrPat(chain[i])}
    IN IF leaf_node = 0 \/ found = {} THEN None
       ELSE LET node == CHOOSE i \in found : \A j \in found : i <= j
            IN IF chain[node].ty THEN Some(Text("type", chain[node].kind, node)) ELSE None

type_of(chain, range) ==
    LET leaf_node == find_covering_element(chain, range)
        same == {i \in 1..Len(chain) :
                    /\ i >= leaf_node
                    /\ \A j \in leaf_node..i : chain[j].range = chain[leaf_node].range}
        found == {i \in same : IsExprOrPat(chain[i])}
    IN IF leaf_node = 0 \/ found = {} THEN None
       ELSE LET node == CHOOSE i \in found : \A j \in found : i <= j
            IN IF chain[node].ty THEN Some(Text("type", chain[node].kind, node)) ELSE None

(* Option::map(rust_code_markup) *)
map_rust_code_markup(ty) == IF ty = None THEN None ELSE Some(rust_code_markup(ty[1]))

(* The type-of step of hover: entered when no range was set, it returns    *)
(* from hover when no expression or pattern covers the offset; range stays *)
(* None then, and the result is empty.                                     *)
(* hover_type_step taking the outermost expression or pattern. *)
hover_type_step_at_outermost(chain, res, range) ==
    LET nodes == {i \in 1..Len(chain) : chain[i].kind \in {"EXPR", "PAT"}}
        node == IF nodes = {} THEN 0 ELSE CHOOSE i \in nodes : \A j \in nodes : j <= i
    IN IF range = None /\ node # 0
       THEN [res |-> extend(res, map_rust_code_markup(type_of(chain, chain[node].range))),
             range |-> Some(chain[node].range)]
       ELSE [res |-> res, range |-> range]

(* hover_type_step entered whether or not a range has been set. *)
hover_type_step_always_entered(chain, res, range) ==
    LET node == find_node_at_offset(chain, {"EXPR", "PAT"})
    IN IF node # 0
       THEN [res |-> extend(res, map_rust_code_markup(type_of(chain, chain[node].range))),
             range |-> Some(chain[node].range)]
       ELSE [res |-> res, range |-> range]

hover_type_step(chain, res, range) ==
    LET node == find_node_at_offset(chain, {"EXPR", "PAT"})
    IN IF range = None /\ node # 0
       THEN [res |-> extend(res, map_rust_code_markup(type_of(chain, chain[node].range))),
             range |-> Some(chain[node].range)]
       ELSE [res |-> res, range |-> range]

(* hover_return without the check for an empty result. *)
hover_return_without_is_empty(range, res) ==
    IF range = None THEN None ELSE Some(RangeInfo(range[1], res))

(* The end of hover: None without a range or without a block. *)
hover_return(range, res) ==
    IF range = None \/ is_empty(res) THEN None ELSE Some(RangeInfo(range[1], res))

(* hover, with a record of whether it queried the index. *)
hover(chain, c, syms) ==
    LET name_ref == find_node_at_offset(chain, {"NAME_REF"})
        name == find_node_at_offset(chain, {"NAME"})
        usage == hover_name_ref(c, syms)
        res1 == IF name_ref # 0 THEN usage.res
                ELSE IF name # 0 THEN hover_name(chain, name)
                ELSE HoverResult_new
        range1 == IF is_empty(res1) THEN None
                  ELSE IF name_ref # 0 THEN Some(chain[name_ref].range)
                  ELSE Some(chain[name].range)
        queried == name_ref # 0 /\ usage.index_queried
        typed == hover_type_step(chain, res1, range1)
    IN [value |-> hover_return(typed.range, typed.res), index_queried |-> queried]

-----------------------------------------------------------------------------
(* The state machine. *)

Init ==
    /\ ancestors \in RefChains \cup NameChains \cup BareChains
    /\ IF find_node_at_offset(ancestors, {"NAME_REF"}) # 0
       THEN classification \in Classifications /\ symbols \in IndexAnswers
       ELSE classification = Unclassified /\ symbols = <<>>
    /\ frange = None
    /\ op = "none"
    /\ result = None
    /\ index_queried = FALSE

GotoDefinition ==
    /\ op' = "goto_definition"
    /\ result' = goto_definition(ancestors, classification, symbols).value
    /\ index_queried' = goto_definition(ancestors, classification, symbols).index_queried
    /\ UNCHANGED <<ancestors, classification, symbols, frange>>

Hover ==
    /\ op' = "hover"
    /\ result' = hover(ancestors, classification, symbols).value
    /\ index_queried' = hover(ancestors, classification, symbols).index_queried
    /\ UNCHANGED <<ancestors, classification, symbols, frange>>

Next == GotoDefinition \/ Hover

Spec == Init /\ [][Next]_vars

(* The ranges type_of is asked about: every range of the file the chain    *)
(* lies in, the empty ones included.                                       *)
FileRanges == {r \in (0..(2 * MaxDepth)) \X (0..(2 * MaxDepth)) : r[1] <= r[2]}

(* type_of is a query of its own: it reads the syntax and the types, not   *)
(* the classification or the index.                                        *)
InitTypeOf ==
    /\ ancestors \in RefChains \cup NameChains \cup BareChains
    /\ classification = Unclassified
    /\ symbols = <<>>
    /\ frange = None
    /\ op = "none"
    /\ result = None
    /\ index_queried = FALSE

TypeOf ==
    /\ \E r \in FileRanges :
        /\ frange' = Some(r)
        /\ result' = type_of(ancestors, r)
    /\ op' = "type_of"
    /\ UNCHANGED <<ancestors, classification, symbols, index_queried>>

SpecTypeOf == InitTypeOf /\ [][TypeOf]_vars

-----------------------------------------------------------------------------
(* Properties. *)

NameRefIndex == find_node_at_offset(ancestors, {"NAME_REF"})
NameIndex == find_node_at_offset(ancestors, {"NAME"})

(* The query ran on a usage: a name reference covers the offset. *)
WentToUsage == op = "goto_definition" /\ NameRefIndex # 0
HoveredUsage == op = "hover" /\ NameRefIndex # 0

(* The query ran on a declaration name that has a parent node. *)
WentToDeclaration ==
    op = "goto_definition" /\ NameRefIndex = 0 /\ NameIndex # 0 /\ NameIndex < Len(ancestors)

NameParent == ancestors[NameIndex + 1]

ModuleByReference ==
    NameParent.kind = "MODULE" /\ NameParent.has_semi /\ NameParent.child

SymbolIds == {s.id : s \in FileSymbols}

(* The owner of the text a hover block renders. *)
BlockOwner(b) == IF b.code # None THEN b.code[1].owner ELSE b.doc[1].owner

FromIndex(b) == BlockOwner(b) \in SymbolIds

(* The targets the index answer maps to, one per symbol, in index order. *)
IndexTargets == [i \in 1..Len(symbols) |-> from_symbol(symbols[i])]

(* C1: a hover result all of whose blocks came from the symbol-index       *)
(* fallback has exact = FALSE, and a result whose blocks came from a       *)
(* semantic branch, the declaration dispatch or the type-of step has       *)
(* exact = TRUE.                                                           *)
C1_ExactFlagTellsFallback ==
    (op = "hover" /\ result # None) =>
        LET res == result[1].info
        IN /\ (\A i \in 1..Len(res.results) : FromIndex(res.results[i])) => res.exact = FALSE
           /\ (\E i \in 1..Len(res.results) : ~FromIndex(res.results[i])) => res.exact = TRUE

(* C2: goto_definition on a name reference returns a present result whose  *)
(* range is the range of the name reference, whatever the classification   *)
(* and the index answer.                                                   *)
C2_GotoOnUsageNeverFails ==
    WentToUsage =>
        /\ result # None
        /\ result[1].range = ancestors[NameRefIndex].range

C2_Witness ==
    /\ WentToUsage
    /\ classification.kind = "None"
    /\ symbols = <<>>
    /\ result = Some(RangeInfo(ancestors[NameRefIndex].range, <<>>))

(* C3 as stated: for a SelfType that is no struct, union or enum the index *)
(* is not queried and the result is empty.                                 *)
C3_SelfTypeNonAdtSkipsIndex ==
    (WentToUsage /\ classification.kind = "SelfType" /\ classification.sub = "NonAdt") =>
        /\ ~index_queried
        /\ result[1].info = <<>>

(* C3, amended: for a SelfType that is no struct, union or enum the match  *)
(* returns nothing, the index is queried and the result is Approximate     *)
(* over the index answer, one target per symbol in index order.            *)
C3_SelfTypeNonAdtFallsBack ==
    (WentToUsage /\ classification.kind = "SelfType" /\ classification.sub = "NonAdt") =>
        /\ index_queried
        /\ reference_definition(classification, symbols).value.tag = "Approximate"
        /\ result[1].info = IndexTargets

C3_Witness ==
    /\ WentToUsage
    /\ classification.kind = "SelfType" /\ classification.sub = "NonAdt"
    /\ Len(symbols) = 2
    /\ index_queried
    /\ Len(result[1].info) = 2

(* C4 as stated: for a GenericParam the result is empty whatever the index *)
(* contains.                                                               *)
C4_GenericParamYieldsNothing ==
    (WentToUsage /\ classification.kind = "GenericParam") =>
        /\ reference_definition(classification, symbols).value.tag = "Approximate"
        /\ result[1].info = <<>>

(* C4, amended: for a GenericParam the result is Approximate over the      *)
(* index answer: the index is queried and every symbol it returns becomes  *)
(* a target, so the result is empty only when the index answer is.         *)
C4_GenericParamFallsBack ==
    (WentToUsage /\ classification.kind = "GenericParam") =>
        /\ index_queried
        /\ reference_definition(classification, symbols).value.tag = "Approximate"
        /\ result[1].info = IndexTargets
        /\ (result[1].info = <<>> <=> symbols = <<>>)

C4_Witness ==
    /\ WentToUsage
    /\ classification.kind = "GenericParam"
    /\ symbols # <<>>
    /\ result[1].info # <<>>

(* The classifications whose arm returns an exact target. *)
ExactlyResolved ==
    \/ classification.kind \in {"Macro", "FieldAccess", "AssocItem", "Method", "Pat", "SelfParam"}
    \/ classification.kind = "Def" /\ classification.sub # "BuiltinType"
    \/ classification.kind = "SelfType" /\ classification.sub = "Adt"

(* C5: goto_definition on a name reference returns more than one target    *)
(* only when the index was queried; when the classification resolves       *)
(* exactly, the result is Exact, has one target, and the index is not      *)
(* queried.                                                                *)
C5_AmbiguityOnlyFromIndex ==
    WentToUsage =>
        /\ Len(result[1].info) > 1 => index_queried
        /\ ExactlyResolved =>
            /\ reference_definition(classification, symbols).value.tag = "Exact"
            /\ Len(result[1].info) = 1
            /\ \A i \in 1..Len(symbols) : result[1].info[1] # from_symbol(symbols[i])
            /\ ~index_queried

C5_Witness ==
    /\ WentToUsage
    /\ classification.kind = "Def" /\ classification.sub = "Item"
    /\ Len(symbols) = 2
    /\ Len(result[1].info) = 1

(* C6: hover on a name reference classified as Pat or SelfParam never      *)
(* queries the index; its result, if present, has one block, the type of   *)
(* the nearest enclosing expression or pattern, and is exact.              *)
C6_HoverOnLocalShowsType ==
    (HoveredUsage /\ classification.kind \in {"Pat", "SelfParam"}) =>
        /\ ~index_queried
        /\ result # None =>
            LET nearest == find_node_at_offset(ancestors, {"EXPR", "PAT"})
            IN /\ nearest # 0
               /\ result[1].info.results =
                    <<rust_code_markup(Text("type", ancestors[nearest].kind, nearest))>>
               /\ result[1].info.exact = TRUE

C6_Witness ==
    /\ HoveredUsage
    /\ classification.kind = "Pat"
    /\ \E i \in 1..Len(symbols) : symbols[i].desc
    /\ result # None
    /\ Len(result[1].info.results) = 1

(* C7: for a Def no target can be built from, the result is Approximate    *)
(* and empty, the index is not queried, and the query still answers.       *)
C7_UnbuildableDefYieldsEmpty ==
    (WentToUsage /\ classification.kind = "Def" /\ from_def(classification) = None) =>
        /\ reference_definition(classification, symbols).value = Approximate(<<>>)
        /\ result = Some(RangeInfo(ancestors[NameRefIndex].range, <<>>))
        /\ ~index_queried

C7_Witness ==
    /\ WentToUsage
    /\ classification.kind = "Def" /\ from_def(classification) = None
    /\ symbols # <<>>
    /\ result # None /\ result[1].info = <<>>

(* C8: for an unclassified reference the result is Approximate with one    *)
(* target per symbol of the index answer, the i-th built from the i-th     *)
(* symbol; an empty answer gives an empty sequence.                        *)
C8_FallbackKeepsIndexAnswer ==
    (WentToUsage /\ classification.kind = "None") =>
        /\ reference_definition(classification, symbols).value.tag = "Approximate"
        /\ Len(result[1].info) = Len(symbols)
        /\ \A i \in 1..Len(symbols) : result[1].info[i] = from_symbol(symbols[i])

C8_Witness ==
    /\ WentToUsage
    /\ classification.kind = "None"
    /\ Len(symbols) = 2 /\ symbols[1] = symbols[2]
    /\ Len(result[1].info) = 2

(* The target built from the parent declaration of the name: the whole     *)
(* declaration as full range, the name as focus range.                     *)
DeclarationTarget ==
    NavigationTarget("from_named", NameParent.kind, ThisFile, NameParent.range,
                     Some(ancestors[NameIndex].range))

(* C9 as stated: a declaration name whose parent is of one of the eleven   *)
(* categories gets one target built from that parent; a name whose parent  *)
(* is of no category gets None.                                            *)
C9_DeclarationDispatch ==
    WentToDeclaration =>
        IF NameParent.kind \in DeclKinds
        THEN result = Some(RangeInfo(ancestors[NameIndex].range, <<DeclarationTarget>>))
        ELSE result = None

(* C9, amended: a declaration name whose parent is of one of the eleven    *)
(* categories, and is not a module declared by reference that resolves to  *)
(* a child module, gets one target built from that parent; a name whose    *)
(* parent is of no category gets None.                                     *)
C9_DeclarationDispatchButModuleFile ==
    (WentToDeclaration /\ ~ModuleByReference) =>
        IF NameParent.kind \in DeclKinds
        THEN result = Some(RangeInfo(ancestors[NameIndex].range, <<DeclarationTarget>>))
        ELSE result = None

C9_Witness ==
    /\ WentToDeclaration
    /\ NameParent.kind = "MACRO_CALL"
    /\ result # None
    /\ result[1].info = <<DeclarationTarget>>

(* C10: a name whose parent is a module declaration ending in a semicolon  *)
(* that resolves to a child module gets one target, the child module's     *)
(* file, and not the target of the declaration.                            *)
C10_ModuleByReferenceGoesToFile ==
    (WentToDeclaration /\ ModuleByReference) =>
        /\ result # None
        /\ result[1].range = ancestors[NameIndex].range
        /\ Len(result[1].info) = 1
        /\ result[1].info[1] = from_module
        /\ result[1].info[1].file_id # ThisFile
        /\ result[1].info[1] # DeclarationTarget

C10_Witness ==
    /\ WentToDeclaration
    /\ ModuleByReference
    /\ result # None
    /\ result[1].info = <<from_module>>

(* The targets goto_definition returned. *)
ReturnedTargets ==
    IF op = "goto_definition" /\ result # None
    THEN {result[1].info[i] : i \in 1..Len(result[1].info)}
    ELSE {}

StrictlyInside(r, e) == RangeContains(e, r) /\ r # e

(* The expressions of the chain the range asked about is strictly inside. *)
ExpressionsAround ==
    IF op = "type_of"
    THEN {e \in 1..Len(ancestors) :
            ancestors[e].kind = "EXPR" /\ StrictlyInside(frange[1], ancestors[e].range)}
    ELSE {}

(* C12 as stated: type_of over a range strictly inside the range of an     *)
(* expression returns what type_of over the range of the expression        *)
(* returns.                                                                *)
C12_RangeWidening ==
    \A e \in ExpressionsAround : result = type_of(ancestors, ancestors[e].range)

(* C12, amended: type_of over a range strictly inside the range of an      *)
(* expression returns what type_of over the range of the expression        *)
(* returns, provided the smallest syntax element covering the range has    *)
(* the range of the expression.                                            *)
C12_RangeWideningToCoveringElement ==
    \A e \in ExpressionsAround :
        ancestors[find_covering_element(ancestors, frange[1])].range = ancestors[e].range
            => result = type_of(ancestors, ancestors[e].range)

C12_Witness ==
    \E e \in ExpressionsAround :
        /\ ancestors[find_covering_element(ancestors, frange[1])].range = ancestors[e].range
        /\ ancestors[e].ty
        /\ result = Some(Text("type", "EXPR", e))

(* The symbols of the index answer that have a description or              *)
(* documentation, in index order.                                          *)
DescribedSymbols == SelectSeq(symbols, LAMBDA s : s.desc \/ s.docs)

(* The block of an indexed symbol: its description as code followed by its *)
(* documentation, or the documentation alone.                              *)
SymbolBlock(s) ==
    IF s.desc
    THEN [code |-> Some(Text("label", s.id, 0)),
          doc |-> IF s.docs THEN Some(Text("doc", s.id, 0)) ELSE None]
    ELSE [code |-> None, doc |-> Some(Text("doc", s.id, 0))]

(* What hover returns at the same place when s is the sole index match. *)
SoleMatchBlocks(s) ==
    LET alone == hover(ancestors, classification, <<s>>).value
    IN IF alone = None THEN <<>> ELSE alone[1].info.results

OneBlockPerDescribedSymbol ==
    /\ Len(result[1].info.results) = Len(DescribedSymbols)
    /\ \A k \in 1..Len(DescribedSymbols) :
        /\ result[1].info.results[k] = SymbolBlock(DescribedSymbols[k])
        /\ SoleMatchBlocks(DescribedSymbols[k]) = <<result[1].info.results[k]>>

IsTypeBlock(b) == b.code # None /\ b.code[1].kind = "type"

(* C13 as stated: a hover result obtained with the index fallback has one  *)
(* block per indexed symbol that has a description or documentation, in    *)
(* index order, each the block a hover with that symbol as sole index      *)
(* match produces.                                                         *)
C13_FallbackBlocksPerSymbol ==
    (HoveredUsage /\ index_queried /\ result # None) => OneBlockPerDescribedSymbol

(* C13, amended: the same, provided some indexed symbol has a description  *)
(* or documentation, and the result is present then; when none has, the    *)
(* fallback adds no block and a present result holds the block of the      *)
(* type-of step alone.                                                     *)
C13_FallbackBlocksPerDescribedSymbol ==
    (HoveredUsage /\ index_queried) =>
        IF DescribedSymbols # <<>>
        THEN result # None /\ OneBlockPerDescribedSymbol
        ELSE result # None =>
                /\ Len(result[1].info.results) = 1
                /\ IsTypeBlock(result[1].info.results[1])

C13_Witness ==
    /\ HoveredUsage
    /\ index_queried
    /\ Len(symbols) = 2 /\ Len(DescribedSymbols) = 2 /\ symbols[1] # symbols[2]
    /\ result # None
    /\ Len(result[1].info.results) = 2

(* The classifications whose branch in hover adds a block: the entity has  *)
(* a source the branch reads, and that source has a label or documentation *)
(* (for a macro, documentation).                                           *)
BranchAddsBlock ==
    \/ /\ classification.kind \in {"Method", "AssocItem"}
       /\ classification.docs \/ classification.label
    \/ classification.kind = "Macro" /\ classification.docs
    \/ /\ classification.kind = "FieldAccess" /\ classification.sub = "Named"
       /\ classification.docs \/ classification.label
    \/ /\ classification.kind = "Def" /\ classification.sub \in {"Module", "Item"}
       /\ classification.docs \/ classification.label
    \/ /\ classification.kind = "SelfType" /\ classification.sub = "Adt"
       /\ classification.docs \/ classification.label

HoverBlocks == IF result = None THEN <<>> ELSE result[1].info.results

(* C14: hover on a name reference queries the index exactly when the       *)
(* branch of the classification added no block and the classification is   *)
(* neither Pat nor SelfParam; no result holds both blocks of the index and *)
(* other blocks.                                                           *)
C14_FallbackIffNoSemanticBlock ==
    HoveredUsage =>
        /\ index_queried <=>
            (~BranchAddsBlock /\ classification.kind \notin {"Pat", "SelfParam"})
        /\ ~index_queried => \A i \in 1..Len(HoverBlocks) : ~FromIndex(HoverBlocks[i])
        /\ \/ \A i \in 1..Len(HoverBlocks) : FromIndex(HoverBlocks[i])
           \/ \A i \in 1..Len(HoverBlocks) : ~FromIndex(HoverBlocks[i])

C14_Witness ==
    /\ HoveredUsage
    /\ classification.kind = "Macro" /\ ~classification.docs /\ classification.label
    /\ index_queried
    /\ Len(HoverBlocks) = 2
    /\ FromIndex(HoverBlocks[1])

(* C15: a hover result that holds a block of the type-of step holds that   *)
(* block alone; goto_definition at a position on neither a name reference  *)
(* nor a name returns nothing.                                             *)
C15_TypeBlockStandsAlone ==
    /\ op = "hover" /\ (\E i \in 1..Len(HoverBlocks) : IsTypeBlock(HoverBlocks[i]))
           => Len(HoverBlocks) = 1
    /\ op = "goto_definition" /\ NameRefIndex = 0 /\ NameIndex = 0 => result = None

C15_Witness ==
    /\ op = "hover"
    /\ NameRefIndex # 0
    /\ classification.kind = "Def" /\ classification.sub = "Item"
    /\ ~classification.docs /\ ~classification.label
    /\ Len(symbols) = MaxIndex
    /\ DescribedSymbols = <<>>
    /\ Len(HoverBlocks) = 1
    /\ IsTypeBlock(HoverBlocks[1])

(* The nearest expression or pattern node enclosing the offset, 0 if none. *)
NearestExprOrPat ==
    LET nodes == {i \in 1..Len(ancestors) : IsExprOrPat(ancestors[i])}
    IN IF nodes = {} THEN 0 ELSE CHOOSE i \in nodes : \A j \in nodes : i <= j

(* C16: the range of a hover result is the name reference's when the usage *)
(* step gave the blocks, the declaration name's when the declaration       *)
(* dispatch gave them, and the nearest enclosing expression's or pattern's *)
(* when the type-of step gave the block.                                   *)
C16_RangeOfFirstProducingBranch ==
    op = "hover" /\ result # None =>
        IF \E i \in 1..Len(HoverBlocks) : IsTypeBlock(HoverBlocks[i])
        THEN /\ NearestExprOrPat # 0
             /\ result[1].range = ancestors[NearestExprOrPat].range
             /\ BlockOwner(HoverBlocks[1]) = ancestors[NearestExprOrPat].kind
        ELSE IF NameRefIndex # 0
        THEN result[1].range = ancestors[NameRefIndex].range
        ELSE NameIndex # 0 /\ result[1].range = ancestors[NameIndex].range

C16_Witness ==
    /\ op = "hover"
    /\ NameRefIndex # 0
    /\ classification.kind = "Method" /\ ~classification.docs /\ ~classification.label
    /\ index_queried
    /\ result # None
    /\ IsTypeBlock(HoverBlocks[1])
    /\ result[1].range = ancestors[NearestExprOrPat].range
    /\ result[1].range # ancestors[NameRefIndex].range

(* The nodes covering the range asked about, and among them the smallest   *)
(* and those of its ancestors that have its range.                         *)
Covering ==
    IF op = "type_of"
    THEN {i \in 1..Len(ancestors) : RangeContains(ancestors[i].range, frange[1])}
    ELSE {}

Considered ==
    {i \in Covering : \A j \in Covering : ancestors[j].range = ancestors[i].range
                                             \/ StrictlyInside(ancestors[i].range, ancestors[j].range)}

FirstConsidered(i) ==
    i \in Considered /\ IsExprOrPat(ancestors[i])
        /\ \A j \in Considered : IsExprOrPat(ancestors[j]) => i <= j

(* C17: type_of returns the type of the first expression or pattern among  *)
(* the smallest element covering the range and its ancestors of the same   *)
(* range, and nothing when there is none among them or it has no type.     *)
C17_TypeOfSameRangeAncestors ==
    op = "type_of" =>
        /\ result # None =>
              /\ FirstConsidered(result[1].at)
              /\ ancestors[result[1].at].ty
              /\ result = Some(Text("type", ancestors[result[1].at].kind, result[1].at))
        /\ result = None =>
              \A i \in Considered : FirstConsidered(i) => ~ancestors[i].ty

C17_Witness ==
    /\ op = "type_of"
    /\ Considered # {}
    /\ \A i \in Considered : ~IsExprOrPat(ancestors[i])
    /\ \E e \in Covering \ Considered : ancestors[e].kind = "EXPR" /\ ancestors[e].ty
    /\ result = None

(* The usage step has nothing to show: there is no name reference, or its  *)
(* branch adds no block and the index is not asked or describes no symbol. *)
UsageSilent ==
    \/ NameRefIndex = 0
    \/ /\ ~BranchAddsBlock
       /\ classification.kind \in {"Pat", "SelfParam"} \/ DescribedSymbols = <<>>

(* The declaration dispatch has nothing to show. *)
DeclarationSilent ==
    \/ NameRefIndex # 0
    \/ NameIndex = 0
    \/ NameIndex = Len(ancestors)
    \/ NameParent.kind \notin DeclKinds
    \/ ~NameParent.docs /\ (~NameParent.label \/ NameParent.kind = "MACRO_CALL")

(* The type-of step has nothing to show. *)
TypeSilent == NearestExprOrPat = 0 \/ ~ancestors[NearestExprOrPat].ty

(* C18: a present hover result has at least one block, and hover returns   *)
(* nothing when no step has a block to show, an enclosing expression or    *)
(* pattern without a type included.                                        *)
C18_PresentResultHasBlock ==
    op = "hover" =>
        /\ result # None => Len(result[1].info.results) >= 1
        /\ UsageSilent /\ DeclarationSilent /\ TypeSilent => result = None
        /\ result = None => UsageSilent /\ DeclarationSilent /\ TypeSilent

C18_Witness ==
    /\ op = "hover"
    /\ UsageSilent /\ DeclarationSilent
    /\ NearestExprOrPat # 0
    /\ ~ancestors[NearestExprOrPat].ty
    /\ result = None

====
